---- MODULE Spec2Model ----
(***************************************************************************)
(* A model of src/format.js of react-intl: the six format functions, the   *)
(* option filter and the named-format lookup.  One action is one call of   *)
(* an exported function; the state records the call, what it did to its    *)
(* collaborators (console, the formatter cache `state`) and how it ended.  *)
(***************************************************************************)
EXTENDS Integers, Sequences, FiniteSets, TLC

VARIABLES
    production,   \* process.env.NODE_ENV === 'production' (fixed by the build)
    op,           \* the exported function that was called, "idle" between calls
    args,         \* the arguments of that call
    fx,           \* what the call did: console.error lines, calls on `state`
    outcome,      \* how the call ended: a returned value or a thrown error
    callerValues  \* the caller's values / rawValues object as the call left it

vars == <<production, op, args, fx, outcome, callerValues>>

(***************************************************************************)
(* Bounds of the model.                                                    *)
(***************************************************************************)
\* longest string held by a value of a `values` object
MaxStrLen == 1
\* largest timestamp (options.now, state.now())
MaxTime == 1

(***************************************************************************)
(* JavaScript values.  A string is a sequence of characters.               *)
(***************************************************************************)
\* The own enumerable properties of an object: the function from its keys
\* to their values.  {} is the empty one.
EmptyObject == [k \in {} |-> 0]

Undefined == [type |-> "undefined", str |-> <<>>, num |-> 0, props |-> EmptyObject]

Null == [type |-> "null", str |-> <<>>, num |-> 0, props |-> EmptyObject]

Str(s) == [type |-> "string", str |-> s, num |-> 0, props |-> EmptyObject]

Num(n) == [type |-> "number", str |-> <<>>, num |-> n, props |-> EmptyObject]

NaN == [type |-> "number", str |-> <<"N", "a", "N">>, num |-> 0, props |-> EmptyObject]

Obj(props) == [type |-> "object", str |-> <<>>, num |-> 0, props |-> props]

\* new Date(...): a time value, or an Invalid Date
DateOf(time) == [type |-> "date", str |-> <<>>, num |-> time, props |-> EmptyObject]

InvalidDate ==
    [type |-> "date", str |-> <<"I", "n", "v", "a", "l", "i", "d">>, num |-> 0,
     props |-> EmptyObject]

\* ToBoolean
Truthy(v) ==
    CASE v.type = "string" -> v.str # <<>>
      [] v.type = "number" -> v.str = <<>> /\ v.num # 0
      [] v.type \in {"object", "date"} -> TRUE
      [] OTHER -> FALSE

\* a || b
JsOr(a, b) == IF Truthy(a) THEN a ELSE b

\* a && b
JsAnd(a, b) == IF Truthy(a) THEN b ELSE a

\* props[key], undefined for a key the object does not have
Get(props, key) == IF key \in DOMAIN props THEN props[key] ELSE Undefined

\* Every property name the model uses, in the order Object.keys lists them.
KeyOrder == <<"x", "y", "format", "now", "year", "hour", "style", "units", "currency">>

\* Object.keys(obj)
ObjectKeys(obj) == SelectSeq(KeyOrder, LAMBDA k : k \in DOMAIN obj)

\* String.prototype.toLowerCase on the characters the model uses
LowerChar(c) ==
    CASE c = "E" -> "e"
      [] c = "N" -> "n"
      [] OTHER -> c

toLowerCase(s) == [i \in 1..Len(s) |-> LowerChar(s[i])]

(***************************************************************************)
(* How a call ends, and what it did.                                       *)
(***************************************************************************)
Return(v) == [kind |-> "return", value |-> v]

Throw(name) == [kind |-> "throw", value |-> Str(<<name>>)]

NoEffects ==
    [ console          |-> <<>>,   \* console.error lines, in order
      getMessageFormat |-> <<>>,   \* state.getMessageFormat(message, locale, formats)
      format           |-> <<>>,   \* formatter.format(...) calls (`of`: what the
                                   \* formatter was created for) and their results
      getFormat        |-> <<>>,   \* state.get{DateTime,Relative,Number,Plural}Format
      getNamedFormat   |-> <<>>,   \* getNamedFormat(formats, type, name)
      lookups          |-> 0,      \* reads of messages[id]
      now              |-> 0 ]     \* calls of state.now()

\* the effects of a, then those of b
Then(a, b) ==
    [ console          |-> a.console \o b.console,
      getMessageFormat |-> a.getMessageFormat \o b.getMessageFormat,
      format           |-> a.format \o b.format,
      getFormat        |-> a.getFormat \o b.getFormat,
      getNamedFormat   |-> a.getNamedFormat \o b.getNamedFormat,
      lookups          |-> a.lookups + b.lookups,
      now              |-> a.now + b.now ]

Log(line) == [NoEffects EXCEPT !.console = <<line>>]

LogUnlessProduction(prod, line) == IF prod THEN NoEffects ELSE Log(line)

(***************************************************************************)
(* The formatter cache `state` handed to every function.  Its formatters   *)
(* are the wrapped Intl / ICU engines: creating one may throw (a syntax    *)
(* error in the message, an invalid option), formatting may throw (a       *)
(* missing value, an invalid date) or return a string, the empty string    *)
(* included.  A returned string is determined by what the formatter was    *)
(* given.                                                                  *)
(***************************************************************************)
Behaviours == {"ok", "empty", "throwOnCreate", "throwOnFormat"}

\* String(value) as the engines interpolate it
ValueText(v) ==
    CASE v.type = "string" -> v.str
      [] v.type \in {"number", "date"} ->
            IF v.str = <<>> THEN <<ToString(v.num)>> ELSE v.str
      [] OTHER -> <<v.type>>

RECURSIVE RenderValues(_, _)
RenderValues(values, keys) ==
    IF keys = <<>> THEN <<>>
    ELSE <<"{", Head(keys), "=">> \o ValueText(values[Head(keys)]) \o <<"}">>
         \o RenderValues(values, Tail(keys))

\* the string an ICU message formatter for (message, locale) returns for values
Rendered(message, locale, values) ==
    Str(message.str \o <<"@">> \o ValueText(locale) \o RenderValues(values, ObjectKeys(values)))

\* state.getMessageFormat(message, locale, formats) followed by
\* formatter.format(values): the body of the two try blocks of formatMessage
CreateAndFormat(state, message, locale, formats, values) ==
    LET b   == state.messageFormat[message.str]
        out == CASE b = "ok"    -> Return(Rendered(message, locale, values))
                 [] b = "empty" -> Return(Str(<<>>))
                 [] OTHER       -> Throw("Error")
    IN  [ outcome |-> out,
          fx |-> [NoEffects EXCEPT
                    !.getMessageFormat =
                        << [message |-> message, locale |-> locale, formats |-> formats] >>,
                    !.format =
                        IF b = "throwOnCreate" THEN <<>>
                        ELSE << [of |-> message, input |-> values, now |-> Undefined,
                                 result |-> out] >> ] ]

(***************************************************************************)
(* The option whitelists: Object.keys of the prop types of ./types.  The   *)
(* model keeps two keys of each (one for plurals).                         *)
(***************************************************************************)
DATE_TIME_FORMAT_OPTIONS == <<"year", "hour">>

NUMBER_FORMAT_OPTIONS == <<"style", "currency">>

RELATIVE_FORMAT_OPTIONS == <<"style", "units">>

PLURAL_FORMAT_OPTIONS == <<"style">>

(***************************************************************************)
(* filterFormatOptions and getNamedFormat                                  *)
(***************************************************************************)
\* the step, were the named format to win over the caller's options
FilterStepDefaultsFirst(opts, name, obj, defaults) ==
    IF name \in DOMAIN defaults
    THEN (name :> defaults[name]) @@ opts
    ELSE IF name \in DOMAIN obj
         THEN (name :> obj[name]) @@ opts
         ELSE opts

\* the reducer's step: opts after looking at `name`
FilterStep(opts, name, obj, defaults) ==
    IF name \in DOMAIN obj
    THEN (name :> obj[name]) @@ opts
    ELSE IF name \in DOMAIN defaults
         THEN (name :> defaults[name]) @@ opts
         ELSE opts

RECURSIVE FilterReduce(_, _, _, _)
FilterReduce(whitelist, obj, defaults, opts) ==
    IF whitelist = <<>> THEN opts
    ELSE FilterReduce(Tail(whitelist), obj, defaults,
                      FilterStep(opts, Head(whitelist), obj, defaults))

\* obj: the own properties of the caller's options; defaults: the value
\* handed in, replaced by {} when it is undefined.  The callers hand in
\* undefined, a falsy options.format or a named format, never null.
filterFormatOptions(whitelist, obj, defaults) ==
    FilterReduce(whitelist, obj,
                 (IF defaults.type = "undefined" THEN Obj(EmptyObject) ELSE defaults).props,
                 EmptyObject)

\* the value returned (undefined when there is none) and the effects
getNamedFormat(prod, formats, type, name) ==
    LET ofType == Get(formats.props, type)
        format == JsAnd(JsAnd(formats, ofType), Get(ofType.props, name.str))
        called == [NoEffects EXCEPT !.getNamedFormat = <<[type |-> type, name |-> name]>>]
    IN  IF Truthy(format)
        THEN [value |-> format, fx |-> called]
        ELSE [ value |-> Undefined,
               fx |-> Then(called, LogUnlessProduction(prod, "No format named")) ]

\* let defaults = format && getNamedFormat(formats, type, format)
NamedDefaults(prod, formats, type, format) ==
    IF Truthy(format)
    THEN getNamedFormat(prod, formats, type, format)
    ELSE [value |-> format, fx |-> NoEffects]

(***************************************************************************)
(* formatDate, formatTime, formatRelative, formatNumber, formatPlural      *)
(***************************************************************************)
\* new Date(value), for the values the model passes: undefined, null, numbers
NewDate(value) ==
    CASE value.type = "null"   -> DateOf(0)
      [] value.type = "number" -> IF value.str = <<>> THEN DateOf(value.num) ELSE InvalidDate
      [] value.type = "date"   -> value
      [] OTHER                 -> InvalidDate

\* isFinite(value): ToNumber(value) is neither NaN nor an infinity
isFinite(value) ==
    CASE value.type \in {"number", "date"} -> value.str = <<>>
      [] value.type = "null"               -> TRUE
      [] OTHER                             -> FALSE

\* the string a formatter of `kind` for (locale, options) returns
RenderedFormat(kind, locale, options, input, now) ==
    Str(<<kind, "@">> \o ValueText(locale) \o RenderValues(options, ObjectKeys(options))
        \o <<":">> \o ValueText(input) \o <<"/">> \o ValueText(now))

\* state.now()
StateNow(state) ==
    [value |-> Num(state.clock), fx |-> [NoEffects EXCEPT !.now = 1]]

\* the reference time, were options.now ignored
ReferenceNowFromState(now, state) == StateNow(state)

\* now: isFinite(now) ? now : state.now()
ReferenceNow(now, state) ==
    IF isFinite(now) THEN [value |-> now, fx |-> NoEffects] ELSE StateNow(state)

\* state.get<Kind>Format(locale, filteredOptions).format(input): the
\* constructor is called, and then, unless it threw, format
GetFormatAndFormat(state, kind, locale, filteredOptions, input) ==
    LET b   == state.formatter
        out == IF b = "ok"
               THEN Return(RenderedFormat(kind, locale, filteredOptions, input, Undefined))
               ELSE Throw("RangeError")
    IN  [ outcome |-> out,
          fx |-> [NoEffects EXCEPT
                    !.getFormat = << [kind |-> kind, locale |-> locale,
                                      options |-> filteredOptions] >>,
                    !.format =
                        IF b = "throwOnCreate" THEN <<>>
                        ELSE << [of |-> Str(<<kind>>), input |-> input, now |-> Undefined,
                                 result |-> out] >> ] ]

\* state.getRelativeFormat(locale, filteredOptions).format(date, {now: ...}):
\* the `now` argument is evaluated once the constructor has returned
GetRelativeFormatAndFormat(state, locale, filteredOptions, date, now) ==
    LET b   == state.formatter
        ref == IF b = "throwOnCreate"
               THEN [value |-> Undefined, fx |-> NoEffects]
               ELSE ReferenceNow(now, state)
        out == IF b = "ok"
               THEN Return(RenderedFormat("relative", locale, filteredOptions, date, ref.value))
               ELSE Throw("RangeError")
    IN  [ outcome |-> out,
          fx |-> Then(ref.fx,
                   [NoEffects EXCEPT
                    !.getFormat = << [kind |-> "relative", locale |-> locale,
                                      options |-> filteredOptions] >>,
                    !.format =
                        IF b = "throwOnCreate" THEN <<>>
                        ELSE << [of |-> Str(<<"relative">>), input |-> date,
                                 now |-> ref.value, result |-> out] >> ]) ]

formatDate(prod, config, state, value, options) ==
    LET format          == Get(options, "format")
        date            == NewDate(value)
        defaults        == NamedDefaults(prod, config.formats, "date", format)
        filteredOptions == filterFormatOptions(DATE_TIME_FORMAT_OPTIONS, options,
                                               defaults.value)
        r == GetFormatAndFormat(state, "dateTime", config.locale, filteredOptions, date)
    IN  [outcome |-> r.outcome, fx |-> Then(defaults.fx, r.fx)]

formatTime(prod, config, state, value, options) ==
    LET format          == Get(options, "format")
        date            == NewDate(value)
        defaults        == NamedDefaults(prod, config.formats, "time", format)
        filteredOptions == filterFormatOptions(DATE_TIME_FORMAT_OPTIONS, options,
                                               defaults.value)
        r == GetFormatAndFormat(state, "dateTime", config.locale, filteredOptions, date)
    IN  [outcome |-> r.outcome, fx |-> Then(defaults.fx, r.fx)]

formatRelative(prod, config, state, value, options) ==
    LET format          == Get(options, "format")
        date            == NewDate(value)
        now             == NewDate(Get(options, "now"))
        defaults        == NamedDefaults(prod, config.formats, "relative", format)
        filteredOptions == filterFormatOptions(RELATIVE_FORMAT_OPTIONS, options,
                                               defaults.value)
        r == GetRelativeFormatAndFormat(state, config.locale, filteredOptions, date, now)
    IN  [outcome |-> r.outcome, fx |-> Then(defaults.fx, r.fx)]

formatNumber(prod, config, state, value, options) ==
    LET format          == Get(options, "format")
        defaults        == NamedDefaults(prod, config.formats, "number", format)
        filteredOptions == filterFormatOptions(NUMBER_FORMAT_OPTIONS, options,
                                               defaults.value)
        r == GetFormatAndFormat(state, "number", config.locale, filteredOptions, value)
    IN  [outcome |-> r.outcome, fx |-> Then(defaults.fx, r.fx)]

formatPlural(prod, config, state, value, options) ==
    LET filteredOptions == filterFormatOptions(PLURAL_FORMAT_OPTIONS, options, Undefined)
        r == GetFormatAndFormat(state, "plural", config.locale, filteredOptions, value)
    IN  [outcome |-> r.outcome, fx |-> r.fx]

(***************************************************************************)
(* formatMessage                                                           *)
(***************************************************************************)
\* invariant, were it to reject only a missing id
invariantDefinedOnly(condition) == condition.type # "undefined"

\* invariant(id, ...): the condition under which it does not throw
invariant(condition) == Truthy(condition)

\* const message = messages && messages[id]
CatalogMessage(messages, id) == JsAnd(messages, Get(messages.props, id.str))

\* const hasValues = Object.keys(values).length > 0
HasValues(values) == Len(ObjectKeys(values)) > 0

\* the shortcut, were it taken in every build
SkipFormattingAnyBuild(prod, hasValues) == ~hasValues

\* if (!hasValues && process.env.NODE_ENV === 'production')
SkipFormatting(prod, hasValues) == ~hasValues /\ prod

\* the chain, were the default message tried before the catalog message
FallbackDefaultFirst(formattedMessage, message, defaultMessage, id) ==
    JsOr(JsOr(JsOr(formattedMessage, defaultMessage), message), id)

\* return formattedMessage || message || defaultMessage || id
Fallback(formattedMessage, message, defaultMessage, id) ==
    JsOr(JsOr(JsOr(formattedMessage, message), defaultMessage), id)

\* if (message) { try {...} catch (e) {...} } else {...}: the value of
\* formattedMessage after it, the effects, and the error that escapes it
FormatCatalogMessage(prod, config, state, message, defaultMessage, values) ==
    IF Truthy(message)
    THEN LET r == CreateAndFormat(state, message, config.locale, config.formats, values)
         IN  IF r.outcome.kind = "return"
             THEN [formattedMessage |-> r.outcome.value, fx |-> r.fx, error |-> ""]
             ELSE [ formattedMessage |-> Undefined,
                    fx |-> Then(r.fx, LogUnlessProduction(prod,
                              IF Truthy(defaultMessage)
                              THEN "Error formatting message, using default message as fallback."
                              ELSE "Error formatting message")),
                    error |-> "" ]
    ELSE IF prod
         THEN [formattedMessage |-> Undefined, fx |-> NoEffects, error |-> ""]
         ELSE IF ~Truthy(defaultMessage)
              THEN [formattedMessage |-> Undefined, fx |-> Log("Missing message"), error |-> ""]
              ELSE IF ~Truthy(config.locale)
                   THEN [formattedMessage |-> Undefined, fx |-> NoEffects, error |-> ""]
                   \* locale.toLowerCase() !== defaultLocale.toLowerCase()
                   ELSE IF config.defaultLocale.type # "string"
                        THEN [formattedMessage |-> Undefined, fx |-> NoEffects,
                              error |-> "TypeError"]
                        ELSE IF toLowerCase(config.locale.str) # toLowerCase(config.defaultLocale.str)
                             THEN [ formattedMessage |-> Undefined,
                                    fx |-> Log("Missing message, using default message as fallback."),
                                    error |-> "" ]
                             ELSE [formattedMessage |-> Undefined, fx |-> NoEffects, error |-> ""]

\* the guard, were the formatted output not looked at
NeedsDefaultMessageAlways(formattedMessage, defaultMessage) == Truthy(defaultMessage)

\* if (!formattedMessage && defaultMessage)
NeedsDefaultMessage(formattedMessage, defaultMessage) ==
    ~Truthy(formattedMessage) /\ Truthy(defaultMessage)

\* the default message, were it formatted with the active locale and formats
DefaultFormatterArgsActive(config) ==
    [locale |-> config.locale, formats |-> config.formats]

\* the locale and formats the default message's formatter is asked for
DefaultFormatterArgs(config) ==
    [locale |-> config.defaultLocale, formats |-> config.defaultFormats]

\* if (!formattedMessage && defaultMessage) { try {...} catch (e) {...} }
FormatDefaultMessage(prod, config, state, formattedMessage, defaultMessage, values) ==
    IF NeedsDefaultMessage(formattedMessage, defaultMessage)
    THEN LET a == DefaultFormatterArgs(config)
             r == CreateAndFormat(state, defaultMessage, a.locale, a.formats, values)
         IN  IF r.outcome.kind = "return"
             THEN [formattedMessage |-> r.outcome.value, fx |-> r.fx]
             ELSE [ formattedMessage |-> formattedMessage,
                    fx |-> Then(r.fx, LogUnlessProduction(prod,
                              "Error formatting the default message")) ]
    ELSE [formattedMessage |-> formattedMessage, fx |-> NoEffects]

\* if (!formattedMessage) { console.error(...) }
CannotFormat(prod, formattedMessage, message, defaultMessage) ==
    IF ~Truthy(formattedMessage)
    THEN LogUnlessProduction(prod,
            IF Truthy(JsOr(message, defaultMessage))
            THEN "Cannot format message, using message source as fallback."
            ELSE "Cannot format message, using message id as fallback.")
    ELSE NoEffects

formatMessage(prod, config, state, messageDescriptor, values) ==
    LET id             == messageDescriptor.id
        defaultMessage == messageDescriptor.defaultMessage
    IN  IF ~invariant(id)
        THEN [outcome |-> Throw("Invariant Violation"), fx |-> NoEffects]
        ELSE
        LET message == CatalogMessage(config.messages, id)
            lookup  == [NoEffects EXCEPT !.lookups = IF Truthy(config.messages) THEN 1 ELSE 0]
        IN  IF SkipFormatting(prod, HasValues(values))
            THEN [ outcome |-> Return(JsOr(JsOr(message, defaultMessage), id)),
                   fx |-> lookup ]
            ELSE
            LET first == FormatCatalogMessage(prod, config, state, message,
                                              defaultMessage, values)
            IN  IF first.error # ""
                THEN [outcome |-> Throw(first.error), fx |-> Then(lookup, first.fx)]
                ELSE
                LET second == FormatDefaultMessage(prod, config, state,
                                  first.formattedMessage, defaultMessage, values)
                    warn   == CannotFormat(prod, second.formattedMessage, message,
                                           defaultMessage)
                IN  [ outcome |-> Return(Fallback(second.formattedMessage, message,
                                                  defaultMessage, id)),
                      fx |-> Then(Then(Then(lookup, first.fx), second.fx), warn) ]

(***************************************************************************)
(* formatHTMLMessage                                                       *)
(***************************************************************************)
\* utils.escape: ESCAPED_CHARS[match] for each match of /[&><"']/g
EscapedChar(c) ==
    CASE c = "&"  -> <<"&", "a", "m", "p", ";">>
      [] c = ">"  -> <<"&", "g", "t", ";">>
      [] c = "<"  -> <<"&", "l", "t", ";">>
      [] c = "\"" -> <<"&", "q", "u", "o", "t", ";">>
      [] c = "'"  -> <<"&", "#", "x", "2", "7", ";">>
      [] OTHER    -> <<c>>

RECURSIVE escape(_)
escape(str) ==
    IF str = <<>> THEN <<>> ELSE EscapedChar(Head(str)) \o escape(Tail(str))

\* names.reduce((escaped, name) => {...; return escaped}, escaped)
RECURSIVE EscapeReduce(_, _, _)
EscapeReduce(rawValues, names, escaped) ==
    IF names = <<>> THEN escaped
    ELSE LET name  == Head(names)
             value == rawValues[name]
         IN  EscapeReduce(rawValues, Tail(names),
                 (name :> (IF value.type = "string" THEN Str(escape(value.str)) ELSE value))
                 @@ escaped)

\* the values, were they handed on as they came
EscapeValuesUnescaped(rawValues) ==
    [escaped |-> rawValues, rawValues |-> rawValues]

\* let escapedValues = Object.keys(rawValues).reduce(..., {}): the new object,
\* and rawValues as the reduction leaves it
EscapeValues(rawValues) ==
    [ escaped   |-> EscapeReduce(rawValues, ObjectKeys(rawValues), EmptyObject),
      rawValues |-> rawValues ]

formatHTMLMessage(prod, config, state, messageDescriptor, rawValues) ==
    LET e == EscapeValues(rawValues)
        r == formatMessage(prod, config, state, messageDescriptor, e.escaped)
    IN  [outcome |-> r.outcome, fx |-> r.fx, rawValues |-> e.rawValues]

(***************************************************************************)
(* The inputs the calls are drawn from.                                    *)
(***************************************************************************)
MessageId == Str(<<"i", "d">>)

Ids == {Undefined, Str(<<>>), MessageId}

DefaultMessages == {Undefined, Str(<<>>), Str(<<"D">>)}

Catalogs ==
    { Undefined,
      Obj(EmptyObject),
      Obj(MessageId.str :> Str(<<>>)),
      Obj(MessageId.str :> Str(<<"M">>)) }

Locales == {Undefined, Str(<<"f", "r">>), Str(<<"E", "N">>)}

DefaultLocales == {Undefined, Str(<<"e", "n">>)}

\* a named format of formats[type]: what it sets differs from type to type
NamedFormat(type) ==
    CASE type = "date"     -> Obj(("year" :> Str(<<"d">>)) @@ ("hour" :> Str(<<"d">>)))
      [] type = "time"     -> Obj(("year" :> Str(<<"t">>)) @@ ("hour" :> Str(<<"t">>)))
      [] type = "relative" -> Obj(("style" :> Str(<<"r">>)) @@ ("units" :> Str(<<"r">>))
                                  @@ ("now" :> Num(0)))
      [] type = "number"   -> Obj(("style" :> Str(<<"n">>)) @@ ("year" :> Str(<<"n">>)))
      [] OTHER             -> Obj("style" :> Str(<<"p">>))

FormatTypes == {"date", "time", "relative", "number", "plural"}

\* config.formats: every type has the named format "s"
FormatTable == Obj([type \in FormatTypes |-> Obj(<<"s">> :> NamedFormat(type))])

MessageConfigs ==
    { [ locale         |-> l,
        formats        |-> Obj("number" :> Obj(EmptyObject)),
        messages       |-> m,
        defaultLocale  |-> dl,
        defaultFormats |-> Obj(EmptyObject) ]
      : l \in Locales, m \in Catalogs, dl \in DefaultLocales }

MessageTexts == {<<"M">>, <<"D">>}

MessageStates ==
    { [messageFormat |-> f, formatter |-> "ok", clock |-> 0]
      : f \in [MessageTexts -> Behaviours] }

Descriptors ==
    { [id |-> i, defaultMessage |-> d] : i \in Ids, d \in DefaultMessages }

SimpleValues == {EmptyObject, "x" :> Str(<<"a">>)}

\* the characters of the strings held by rawValues
Alphabet == {"a", "<", "&"}

RawStrings == UNION { [1..n -> Alphabet] : n \in 0..MaxStrLen }

RawValueSet == {Str(t) : t \in RawStrings} \cup {Num(7)}

RawValues ==
    UNION { [keys -> RawValueSet] : keys \in SUBSET {"x", "y"} }

HTMLConfigs ==
    {c \in MessageConfigs : c.locale # Undefined /\ c.defaultLocale # Undefined}

\* config for the functions that format a value: no catalog is read
FormatConfigs ==
    { [ locale         |-> l,
        formats        |-> f,
        messages       |-> Undefined,
        defaultLocale  |-> Str(<<"e", "n">>),
        defaultFormats |-> Obj(EmptyObject) ]
      : l \in {Undefined, Str(<<"f", "r">>)},
        f \in {Undefined, Obj(EmptyObject), FormatTable} }

FormatStates(clocks) ==
    { [messageFormat |-> [t \in MessageTexts |-> "ok"], formatter |-> b, clock |-> c]
      : b \in Behaviours \ {"empty"}, c \in clocks }

\* the value to format: a number, or nothing (an Invalid Date for the dates)
FormatValues == {Num(1), Undefined}

\* options.format: unset, the empty string, a format that exists, one that does not
FormatNames == {Undefined, Str(<<>>), Str(<<"s">>), Str(<<"z">>)}

\* options.now
NowValues == {Undefined, Null, NaN} \cup {Num(t) : t \in 0..MaxTime}

OptionChoices(key) ==
    CASE key = "format" -> FormatNames
      [] key = "now"    -> NowValues
      [] OTHER          -> {Str(<<"c">>), Undefined}

\* the options objects whose own keys are among `keys`
OptionsOver(keys) ==
    UNION { { o \in [ks -> UNION {OptionChoices(k) : k \in ks}] :
                \A k \in ks : o[k] \in OptionChoices(k) }
            : ks \in SUBSET keys }

NoArgs ==
    [ config            |-> [ locale |-> Undefined, formats |-> Undefined,
                              messages |-> Undefined, defaultLocale |-> Undefined,
                              defaultFormats |-> Undefined ],
      state             |-> [ messageFormat |-> [t \in MessageTexts |-> "ok"],
                              formatter |-> "ok", clock |-> 0 ],
      value             |-> Undefined,
      options           |-> EmptyObject,
      messageDescriptor |-> [id |-> Undefined, defaultMessage |-> Undefined],
      values            |-> EmptyObject ]

(***************************************************************************)
(* The state machine: a caller calls one exported function, which runs to  *)
(* its end (the module is synchronous), and takes the result.              *)
(***************************************************************************)
Init ==
    /\ production \in BOOLEAN
    /\ op = "idle"
    /\ args = NoArgs
    /\ fx = NoEffects
    /\ outcome = Return(Undefined)
    /\ callerValues = EmptyObject

\* the call `name` with arguments `a` ran and ended as `r` says
Called(name, a, r, values) ==
    /\ op' = name
    /\ args' = a
    /\ fx' = r.fx
    /\ outcome' = r.outcome
    /\ callerValues' = values
    /\ UNCHANGED production

FormatDate ==
    /\ op = "idle"
    /\ \E config \in FormatConfigs, state \in FormatStates({0}), value \in FormatValues,
          options \in OptionsOver({"format", "year", "style"}) :
         Called("formatDate",
                [NoArgs EXCEPT !.config = config, !.state = state, !.value = value,
                               !.options = options],
                formatDate(production, config, state, value, options), EmptyObject)

FormatTime ==
    /\ op = "idle"
    /\ \E config \in FormatConfigs, state \in FormatStates({0}), value \in FormatValues,
          options \in OptionsOver({"format", "year", "style"}) :
         Called("formatTime",
                [NoArgs EXCEPT !.config = config, !.state = state, !.value = value,
                               !.options = options],
                formatTime(production, config, state, value, options), EmptyObject)

FormatRelative ==
    /\ op = "idle"
    /\ \E config \in FormatConfigs, state \in FormatStates(0..MaxTime),
          options \in OptionsOver({"format", "now", "style", "year"}) :
         Called("formatRelative",
                [NoArgs EXCEPT !.config = config, !.state = state, !.value = Num(1),
                               !.options = options],
                formatRelative(production, config, state, Num(1), options), EmptyObject)

FormatNumber ==
    /\ op = "idle"
    /\ \E config \in FormatConfigs, state \in FormatStates({0}), value \in FormatValues,
          options \in OptionsOver({"format", "year", "style"}) :
         Called("formatNumber",
                [NoArgs EXCEPT !.config = config, !.state = state, !.value = value,
                               !.options = options],
                formatNumber(production, config, state, value, options), EmptyObject)

FormatPlural ==
    /\ op = "idle"
    /\ \E config \in FormatConfigs, state \in FormatStates({0}), value \in FormatValues,
          options \in OptionsOver({"format", "year", "style"}) :
         Called("formatPlural",
                [NoArgs EXCEPT !.config = config, !.state = state, !.value = value,
                               !.options = options],
                formatPlural(production, config, state, value, options), EmptyObject)

FormatMessage ==
    /\ op = "idle"
    /\ \E config \in MessageConfigs, state \in MessageStates,
          messageDescriptor \in Descriptors, values \in SimpleValues :
         Called("formatMessage",
                [NoArgs EXCEPT !.config = config, !.state = state,
                               !.messageDescriptor = messageDescriptor,
                               !.values = values],
                formatMessage(production, config, state, messageDescriptor, values),
                values)

FormatHTMLMessage ==
    /\ op = "idle"
    /\ \E config \in HTMLConfigs, state \in MessageStates,
          messageDescriptor \in Descriptors, rawValues \in RawValues :
         LET r == formatHTMLMessage(production, config, state, messageDescriptor, rawValues)
         IN  Called("formatHTMLMessage",
                    [NoArgs EXCEPT !.config = config, !.state = state,
                                   !.messageDescriptor = messageDescriptor,
                                   !.values = rawValues],
                    r, r.rawValues)

\* the caller takes the result
TakeResult ==
    /\ op # "idle"
    /\ op' = "idle"
    /\ args' = NoArgs
    /\ fx' = NoEffects
    /\ outcome' = Return(Undefined)
    /\ callerValues' = EmptyObject
    /\ UNCHANGED production

Next ==
    \/ FormatDate
    \/ FormatTime
    \/ FormatRelative
    \/ FormatNumber
    \/ FormatPlural
    \/ FormatMessage
    \/ FormatHTMLMessage
    \/ TakeResult

Spec == Init /\ [][Next]_vars

(***************************************************************************)
(* The call the state records, as the claims speak of it.                  *)
(***************************************************************************)
MessageCall == op \in {"formatMessage", "formatHTMLMessage"}

TheId == args.messageDescriptor.id

TheDefaultMessage == args.messageDescriptor.defaultMessage

\* messages[id], undefined without a catalog or without an entry
TheMessage ==
    IF args.config.messages.type = "object"
       /\ TheId.str \in DOMAIN args.config.messages.props
    THEN args.config.messages.props[TheId.str]
    ELSE Undefined

\* the values object has at least one own key
TheValuesHaveKeys == DOMAIN args.values # {}

\* the format calls that returned a truthy string
ProducedOutputs ==
    SelectSeq(fx.format, LAMBDA c : c.result.kind = "return" /\ Truthy(c.result.value))

\* the formatted output, undefined when no formatter produced one
FormattedOutput ==
    IF ProducedOutputs = <<>> THEN Undefined ELSE ProducedOutputs[1].result.value

RECURSIVE FirstTruthy(_)
FirstTruthy(chain) ==
    IF Len(chain) = 1 \/ Truthy(Head(chain)) THEN Head(chain) ELSE FirstTruthy(Tail(chain))

\* a formatter constructor or a format call threw during the call
FormatterThrew ==
    \/ \E i \in 1..Len(fx.format) : fx.format[i].result.kind = "throw"
    \/ Len(fx.getMessageFormat) + Len(fx.getFormat) > Len(fx.format)

(***************************************************************************)
(* C1: a formatMessage call with a non-empty id that returns, returns the  *)
(* first truthy value of the chain (formatted output, messages[id],        *)
(* defaultMessage, id).                                                    *)
(***************************************************************************)
C1_FirstTruthyOfChain ==
    (MessageCall /\ Truthy(TheId) /\ outcome.kind = "return")
    => outcome.value =
         FirstTruthy(<<FormattedOutput, TheMessage, TheDefaultMessage, TheId>>)

\* no catalog message, the default message's formatter threw: the raw
\* default message is returned
C1_Witness ==
    /\ op = "formatMessage"
    /\ Truthy(TheId)
    /\ ~Truthy(TheMessage)
    /\ Len(fx.getMessageFormat) = 1
    /\ FormattedOutput = Undefined
    /\ outcome = Return(Str(<<"D">>))

(***************************************************************************)
(* C2: formatMessage called with a non-empty id never throws and always    *)
(* returns a string, whatever the build mode, the catalog, defaultMessage, *)
(* locale and defaultLocale and the formatters' behaviour.                 *)
(***************************************************************************)
C2_NeverThrows ==
    (MessageCall /\ Truthy(TheId))
    => (outcome.kind = "return" /\ outcome.value.type = "string")

(***************************************************************************)
(* C3, as stated: when messages[id] exists and its formatter returns       *)
(* without throwing, the default message is never formatted and the result *)
(* is that formatter's output, the empty string included.                  *)
(***************************************************************************)
CatalogFormatterReturned ==
    /\ MessageCall
    /\ Truthy(TheId)
    /\ Truthy(TheMessage)
    /\ fx.format # <<>>
    /\ fx.format[1].of = TheMessage
    /\ fx.format[1].result.kind = "return"

DefaultMessageNotFormatted ==
    /\ Len(fx.getMessageFormat) = 1
    /\ fx.getMessageFormat[1].message = TheMessage
    /\ outcome = fx.format[1].result

C3_AsStated == CatalogFormatterReturned => DefaultMessageNotFormatted

(***************************************************************************)
(* C3, amended: when messages[id] exists and its formatter returns a       *)
(* non-empty string without throwing, the default message is never         *)
(* formatted and the result is that formatter's output.                    *)
(***************************************************************************)
C3_NonEmptyOutputWins ==
    (CatalogFormatterReturned /\ Truthy(fx.format[1].result.value))
    => DefaultMessageNotFormatted

\* the catalog message was formatted while a default message was at hand
C3_Witness ==
    /\ op = "formatMessage"
    /\ CatalogFormatterReturned
    /\ Truthy(fx.format[1].result.value)
    /\ Truthy(TheDefaultMessage)
    /\ args.state.messageFormat[TheDefaultMessage.str] = "ok"
    /\ outcome.kind = "return"

(***************************************************************************)
(* C4: formatHTMLMessage returns what formatMessage returns for the same   *)
(* config, state and descriptor and the values in which every string of    *)
(* rawValues is HTML-escaped and every other value is kept under its key;  *)
(* the caller's rawValues object is not modified.                          *)
(***************************************************************************)
EscapedForm(rawValues) ==
    [ k \in DOMAIN rawValues |->
        IF rawValues[k].type = "string"
        THEN Str(escape(rawValues[k].str))
        ELSE rawValues[k] ]

C4_HTMLIsMessageOfEscaped ==
    op = "formatHTMLMessage"
    => LET ref == formatMessage(production, args.config, args.state,
                                args.messageDescriptor, EscapedForm(args.values))
       IN  /\ outcome = ref.outcome
           /\ fx = ref.fx
           /\ callerValues = args.values

\* a string with "<" and a number reached the formatter, the string escaped
C4_Witness ==
    /\ op = "formatHTMLMessage"
    /\ args.values = ("x" :> Str(<<"<">>)) @@ ("y" :> Num(7))
    /\ fx.format # <<>>
    /\ fx.format[1].input = ("x" :> Str(<<"&", "l", "t", ";">>)) @@ ("y" :> Num(7))
    /\ outcome.kind = "return"
    /\ Truthy(FormattedOutput)

(***************************************************************************)
(* C5: formatMessage called with a descriptor whose id is missing or falsy *)
(* fails the invariant, before any catalog lookup, console line or call of *)
(* state.getMessageFormat, a defaultMessage notwithstanding.               *)
(***************************************************************************)
C5_IdRequired ==
    (MessageCall /\ ~Truthy(TheId))
    => (outcome = Throw("Invariant Violation") /\ fx = NoEffects)

\* the empty id with a default message and a catalog at hand
C5_Witness ==
    /\ op = "formatMessage"
    /\ TheId = Str(<<>>)
    /\ Truthy(TheDefaultMessage)
    /\ args.config.messages.type = "object"
    /\ outcome.kind = "throw"

(***************************************************************************)
(* C6: in a production build no call writes to console.error; in a         *)
(* non-production build a formatter error, or a message that cannot be     *)
(* formatted, results in at least one console.error line.                  *)
(***************************************************************************)
MessageNotFormatted == MessageCall /\ Truthy(TheId) /\ ~Truthy(FormattedOutput)

C6_LoggedOutsideProductionOnly ==
    /\ production => fx.console = <<>>
    /\ (~production /\ (FormatterThrew \/ MessageNotFormatted)) => fx.console # <<>>

(***************************************************************************)
(* C7: in a production build a formatMessage call with a non-empty id and  *)
(* no values returns messages[id] || defaultMessage || id and never calls  *)
(* state.getMessageFormat; in a non-production build, or with a value, a   *)
(* formatter is requested for every truthy catalog message.                *)
(***************************************************************************)
C7_ShortcutOnlyInProduction ==
    (MessageCall /\ Truthy(TheId))
    => /\ (production /\ ~TheValuesHaveKeys)
          => /\ fx.getMessageFormat = <<>>
             /\ outcome = Return(FirstTruthy(<<TheMessage, TheDefaultMessage, TheId>>))
       /\ ((~production \/ TheValuesHaveKeys) /\ Truthy(TheMessage))
          => /\ fx.getMessageFormat # <<>>
             /\ fx.getMessageFormat[1].message = TheMessage

\* production, no values, a catalog message: returned as it is
C7_Witness ==
    /\ op = "formatMessage"
    /\ production
    /\ ~TheValuesHaveKeys
    /\ Truthy(TheMessage)
    /\ Truthy(TheDefaultMessage)
    /\ outcome = Return(TheMessage)
    /\ fx.getMessageFormat = <<>>

(***************************************************************************)
(* C8: one formatMessage call asks state.getMessageFormat at most twice:   *)
(* first, only for a truthy messages[id], with (message, locale, formats); *)
(* then, only with no truthy output yet and a truthy defaultMessage, with  *)
(* (defaultMessage, defaultLocale, defaultFormats); never the default      *)
(* message with the active locale nor the catalog message with the default *)
(* one.                                                                    *)
(***************************************************************************)
CatalogCallArgs ==
    [message |-> TheMessage, locale |-> args.config.locale,
     formats |-> args.config.formats]

DefaultCallArgs ==
    [message |-> TheDefaultMessage, locale |-> args.config.defaultLocale,
     formats |-> args.config.defaultFormats]

CatalogOutputIsTruthy ==
    \E j \in 1..Len(fx.format) :
        /\ fx.format[j].of = TheMessage
        /\ fx.format[j].result.kind = "return"
        /\ Truthy(fx.format[j].result.value)

C8_FormatterRequestsInOrder ==
    (MessageCall /\ Truthy(TheId))
    => LET calls == fx.getMessageFormat
       IN  /\ Len(calls) <= 2
           /\ \A i \in 1..Len(calls) :
                \/ /\ calls[i] = CatalogCallArgs
                   /\ i = 1
                   /\ Truthy(TheMessage)
                \/ /\ calls[i] = DefaultCallArgs
                   /\ i = Len(calls)
                   /\ Truthy(TheDefaultMessage)
                   /\ ~CatalogOutputIsTruthy
           /\ Len(calls) = 2 => (calls[1] = CatalogCallArgs /\ calls[2] = DefaultCallArgs)

\* both formatters were asked for, with locales that differ
C8_Witness ==
    /\ op = "formatMessage"
    /\ Len(fx.getMessageFormat) = 2
    /\ fx.getMessageFormat[1].locale = Str(<<"f", "r">>)
    /\ fx.getMessageFormat[2].locale = Str(<<"e", "n">>)
    /\ fx.getMessageFormat[1].formats # fx.getMessageFormat[2].formats
    /\ outcome.kind = "return"

(***************************************************************************)
(* C9: the options handed to the formatter constructor hold only keys of   *)
(* the function's whitelist; for such a key the caller's own option wins   *)
(* over formats[type][options.format], a key in neither is absent; with    *)
(* options.format unset or naming no format only the caller's own options  *)
(* are handed on and the call goes through.  formatPlural filters by the   *)
(* plural whitelist and consults no named format.                          *)
(***************************************************************************)
FormatCall ==
    op \in {"formatDate", "formatTime", "formatRelative", "formatNumber", "formatPlural"}

WhitelistOf(o) ==
    LET list == CASE o \in {"formatDate", "formatTime"} -> DATE_TIME_FORMAT_OPTIONS
                  [] o = "formatRelative"               -> RELATIVE_FORMAT_OPTIONS
                  [] o = "formatNumber"                 -> NUMBER_FORMAT_OPTIONS
                  [] OTHER                              -> PLURAL_FORMAT_OPTIONS
    IN  {list[i] : i \in 1..Len(list)}

TypeOf(o) ==
    CASE o = "formatDate"     -> "date"
      [] o = "formatTime"     -> "time"
      [] o = "formatRelative" -> "relative"
      [] o = "formatNumber"   -> "number"
      [] OTHER                -> "none"

\* the properties of formats[type][options.format], {} when there is none
TheNamedFormat ==
    LET name == IF "format" \in DOMAIN args.options THEN args.options["format"]
                ELSE Undefined
        fmts == args.config.formats
        type == TypeOf(op)
    IN  IF /\ name.type = "string"
           /\ fmts.type = "object"
           /\ type \in DOMAIN fmts.props
           /\ name.str \in DOMAIN fmts.props[type].props
        THEN fmts.props[type].props[name.str].props
        ELSE EmptyObject

C10_ReferenceNow ==
    op = "formatRelative"
    => LET built == NewDate(IF "now" \in DOMAIN args.options THEN args.options["now"]
                            ELSE Undefined)
       IN  /\ fx.now <= 1
           /\ fx.now = 1 => ~isFinite(built)
           /\ \A i \in 1..Len(fx.format) :
                IF isFinite(built)
                THEN fx.format[i].now = built
                ELSE fx.format[i].now = Num(args.state.clock) /\ fx.now = 1
           /\ \A i \in 1..Len(fx.getFormat) :
                "now" \in DOMAIN fx.getFormat[i].options
                => "now" \in WhitelistOf("formatRelative")

\* options.now is a valid time other than the clock's
C10_Witness ==
    /\ op = "formatRelative"
    /\ "now" \in DOMAIN args.options
    /\ args.options["now"] = Num(1)
    /\ args.state.clock = 0
    /\ fx.format # <<>>
    /\ fx.format[1].now = DateOf(1)
    /\ fx.now = 0
    /\ outcome.kind = "return"

====
